---- MODULE Spec2Model ----
(***************************************************************************)
(* A model of the two reconcilers of the repository, and of one reporter:  *)
(*   scripts/step1_global.py  (generate_list, main)                        *)
(*   scripts/step1_mx.py      (FIXERS, convert)                            *)
(*   scripts/step2_mx.py      (plot_age_groups)                            *)
(*   scripts/replacer.py                                                   *)
(* Text is modelled as sequences of one-character strings, so that         *)
(* formatting, splitting, stripping and replacing are computed.            *)
(***************************************************************************)
EXTENDS Integers, Sequences, FiniteSets, TLC

VARIABLES
    g_pc,         \* position in step1_global.main
    response1,    \* what generate_list read: header, date columns, Country/Region values
    responses,    \* rows read so far by main from each of the three sources
    dates_dict,   \* ordered dict: header label -> ISO date
    data_dict,    \* ordered dict: key "date_country" -> [confirmed, deaths, recovered]
    kind,         \* index in CSV_FILES of the source being merged
    row,          \* the row last yielded by the reader of main
    g_error,      \* the exception that ended the run, or NoError
    global_data   \* content of global_data.csv, or NoFile

gvars == <<g_pc, response1, responses, dates_dict, data_dict, kind, row,
           g_error, global_data>>

VARIABLES
    f_in,         \* the text handed to the encoding repair
    f_text,       \* the text after the substitutions applied so far
    f_i           \* index in FIXERS of the next substitution

fvars == <<f_in, f_text, f_i>>

VARIABLES
    workbook,     \* the sheets of the catalog workbook, by the dict each fills
    data_csv,     \* the records of the line list
    catalog,      \* the ten module-level dicts, by name
    m_pc,         \* position in step1_mx.convert
    m_sheet,      \* index of the sheet to load next
    m_n,          \* number of records the reader has yielded
    m_row,        \* the record being resolved
    state_with_municipality,  \* the key of the municipality lookup
    data_list,    \* the resolved records
    m_error,      \* the exception that ended the run and the field it rose at
    mx_data       \* content of mx_data.csv

mvars == <<workbook, data_csv, catalog, m_pc, m_sheet, m_n, m_row,
           state_with_municipality, data_list, m_error, mx_data>>

VARIABLES
    r_dict,       \* a catalog, as its loader built it
    r_value,      \* the value of a coded field
    r_calls,      \* how many times the field has been resolved
    r_error       \* the exception a resolution raised, or NoError

rvars == <<r_dict, r_value, r_calls, r_error>>

VARIABLES
    runs,         \* how many runs of the reconciler have completed before this one
    reruns,       \* how many times the reconciler is run again after this run
    first_table   \* the table the run before this one wrote

tvars == <<runs, reruns, first_table>>

VARIABLES
    a_pc,          \* position in step2_mx.plot_age_groups
    df,            \* the cases of the DataFrame handed to it
    male_df,       \* the confirmed cases of men
    female_df,     \* the confirmed cases of women
    age_groups,    \* the bins, as (start, end)
    male_values,   \* the counts of the bins counted so far, men
    female_values  \* the same, women

avars == <<a_pc, df, male_df, female_df, age_groups, male_values,
           female_values>>

VARIABLES
    p_pc,        \* position in replacer.py
    cwd,         \* the names of the files of the working directory
    data_dir,    \* the names of the files of ../data
    archive,     \* the names of the members of mx_data.zip, where it is
    cwd_start,   \* the working directory as the script found it
    p_error      \* the exception that ended the script, or NoError

pvars == <<p_pc, cwd, data_dir, archive, cwd_start, p_error>>

vars == <<gvars, fvars, mvars, rvars, tvars, avars, pvars>>

\* What a step of one program leaves alone: the variables of the others.
NotGlobal == <<fvars, mvars, rvars, tvars, avars, pvars>>
NotFix == <<gvars, mvars, rvars, tvars, avars, pvars>>
NotMx == <<gvars, fvars, rvars, tvars, avars, pvars>>
NotResolve == <<gvars, fvars, mvars, tvars, avars, pvars>>
NotAges == <<gvars, fvars, mvars, rvars, tvars, pvars>>
NotReplacer == <<gvars, fvars, mvars, rvars, tvars, avars>>

NoError == "none"
NoFile == "absent"
NoRow == "norow"

(***************************************************************************)
(* Bounds of the model.                                                    *)
(***************************************************************************)
\* Rows read by main, over the three sources together.
MaxRows == 2
\* The same, where main is run twice.
MaxRowsTwice == 1
\* Length of the texts handed to the encoding repair.
MaxText == 3
\* Records of the line list.
MaxRecords == 2
\* Cases of the DataFrame of the reporter.
MaxCases == 2

(***************************************************************************)
(* Generic helpers on sequences and ordered dicts.                         *)
(***************************************************************************)
Range(s) == {s[i] : i \in 1..Len(s)}

SeqsUpTo(S, n) == UNION {[1..m -> S] : m \in 0..n}

\* A Python dict keeps insertion order: a sequence of <<key, value>> pairs.
DictKeys(d) == {d[i][1] : i \in 1..Len(d)}

DictIndex(d, k) == CHOOSE i \in 1..Len(d) : d[i][1] = k

DictGet(d, k) == d[DictIndex(d, k)][2]

\* d[k] = v: an existing key keeps its place, a new key goes last.
DictSet(d, k, v) ==
    IF k \in DictKeys(d)
    THEN [d EXCEPT ![DictIndex(d, k)] = <<k, v>>]
    ELSE Append(d, <<k, v>>)

DictValues(d) == [i \in 1..Len(d) |-> d[i][2]]

(***************************************************************************)
(* Text helpers.                                                           *)
(***************************************************************************)
Digits == <<"0", "1", "2", "3", "4", "5", "6", "7", "8", "9">>

IsDigit(c) == c \in Range(Digits)

DigitVal(c) == (CHOOSE i \in 1..10 : Digits[i] = c) - 1

DigitChar(n) == Digits[n + 1]

\* str.split(sep) for a one-character separator: the pieces between separators.
RECURSIVE Split(_, _)
Split(s, sep) ==
    IF \A i \in 1..Len(s) : s[i] # sep
    THEN <<s>>
    ELSE LET i == CHOOSE j \in 1..Len(s) :
                      s[j] = sep /\ \A h \in 1..(j - 1) : s[h] # sep
         IN <<SubSeq(s, 1, i - 1)>> \o Split(SubSeq(s, i + 1, Len(s)), sep)

\* int(text): the value of a non-empty run of digits, ValueError otherwise.
IsInt(s) == Len(s) > 0 /\ \A i \in 1..Len(s) : IsDigit(s[i])

RECURSIVE IntOf(_)
IntOf(s) ==
    IF Len(s) = 0 THEN 0
    ELSE 10 * IntOf(SubSeq(s, 1, Len(s) - 1)) + DigitVal(s[Len(s)])

\* Code points of the characters region names are made of.
Ord(c) == CASE c = "A" -> 65 [] c = "B" -> 66 [] c = "_" -> 95

\* s < t as Python compares strings.
RECURSIVE StrLess(_, _)
StrLess(s, t) ==
    IF Len(t) = 0 THEN FALSE
    ELSE IF Len(s) = 0 THEN TRUE
    ELSE IF s[1] # t[1] THEN Ord(s[1]) < Ord(t[1])
    ELSE StrLess(Tail(s), Tail(t))

\* list(S) left as the set gives it: an order that changes from one run of
\* the interpreter to the next (here: ascending in a run that starts with
\* no table written, descending in the run after it).
RECURSIVE ListByRun(_)
ListByRun(S) ==
    IF S = {} THEN <<>>
    ELSE LET m == CHOOSE x \in S : \A y \in S \ {x} :
                      IF g_pc = "start" THEN StrLess(x, y) ELSE StrLess(y, x)
         IN <<m>> \o ListByRun(S \ {m})

\* sorted(list(S)) for a set of strings.
RECURSIVE SortedList(_)
SortedList(S) ==
    IF S = {} THEN <<>>
    ELSE LET m == CHOOSE x \in S : \A y \in S \ {x} : StrLess(x, y)
         IN <<m>> \o SortedList(S \ {m})

\* Characters str.strip() removes.
Whitespace == {" "}

RECURSIVE LStrip(_)
LStrip(s) ==
    IF Len(s) > 0 /\ s[1] \in Whitespace THEN LStrip(Tail(s)) ELSE s

RECURSIVE RStrip(_)
RStrip(s) ==
    IF Len(s) > 0 /\ s[Len(s)] \in Whitespace
    THEN RStrip(SubSeq(s, 1, Len(s) - 1))
    ELSE s

\* str.strip()
Strip(s) == RStrip(LStrip(s))

\* str.replace(old, new): the occurrences of old, left to right, not overlapping.
RECURSIVE Replace(_, _, _)
Replace(s, old, new) ==
    IF Len(s) < Len(old) THEN s
    ELSE IF SubSeq(s, 1, Len(old)) = old
    THEN new \o Replace(SubSeq(s, Len(old) + 1, Len(s)), old, new)
    ELSE <<s[1]>> \o Replace(Tail(s), old, new)

(***************************************************************************)
(* step1_global.py: the data of the three sources.                         *)
(***************************************************************************)
CSV_FILES == <<"confirmed", "deaths", "recovered">>

\* Header labels of date columns, month/day/2-digit-year.
DateLabels ==
    { <<"1", "/", "2", "2", "/", "2", "0">>,
      <<"0", "1", "/", "2", "2", "/", "2", "0">>,
      <<"1", "/", "2", "3", "/", "2", "0">> }

\* Values of the Country/Region column.
Regions == { <<"A">>, <<"B">>, <<"A", "_", "B">> }

\* Values of a date cell.
Cells == { <<"0">>, <<"1">> }

\* Headers, as their date columns (the columns after the first four): none,
\* one, or two, with a label repeated, two labels of one day, two days.
Headers == UNION {[1..m -> DateLabels] : m \in {0, 1, 2}}

\* The four columns ahead of the date columns.
MetaColumns == << <<"Province/State">>, <<"Country/Region">>, <<"Lat">>, <<"Long">> >>

Country_Region == <<"Country/Region">>

\* The header lines of the first source: the four columns and date columns,
\* or fewer than the four columns; the empty one is that of an empty text.
FirstHeaders ==
    {MetaColumns \o d : d \in Headers}
    \cup {SubSeq(MetaColumns, 1, n) : n \in 0..3}

\* reader.fieldnames[4:]
FieldsOf(header) == SubSeq(header, 5, Len(header))

\* The header lines of the source a row of main comes from: that of the first
\* source, or one column shorter; a text with a row has a header line.
SourceHeaders(header) ==
    {h \in {header, SubSeq(header, 1, Len(header) - 1)} : Len(h) > 0}

\* The value of a column the row does not have.
NoColumn == <<>>

\* datetime.strptime(field, "%m/%d/%y"): month, day and year of the century.
Strptime(field) ==
    LET p == Split(field, "/")
        y == IntOf(p[3])
    IN [year |-> IF y <= 68 THEN 2000 + y ELSE 1900 + y,
        month |-> IntOf(p[1]), day |-> IntOf(p[2])]

Pad2(n) == <<DigitChar(n \div 10), DigitChar(n % 10)>>

\* "{:%Y-%m-%d}".format(date)
IsoFormat(d) ==
    <<DigitChar(d.year \div 1000), DigitChar((d.year \div 100) % 10),
      DigitChar((d.year \div 10) % 10), DigitChar(d.year % 10), "-">>
    \o Pad2(d.month) \o <<"-">> \o Pad2(d.day)

\* "{}_{}".format(date, country)
TempKey(date, country) == date \o <<"_">> \o country

\* row[k] of a csv.DictReader row: of several columns named k the last one wins.
RowGet(fields, r, k) ==
    r.cells[CHOOSE i \in 1..Len(fields) :
                fields[i] = k /\ \A j \in (i + 1)..Len(fields) : fields[j] # k]

(***************************************************************************)
(* step1_global.py: generate_list.                                         *)
(***************************************************************************)
\* for field in fields: dates_dict[field] = "{:%Y-%m-%d}".format(strptime(field))
RECURSIVE BuildDates(_, _)
BuildDates(dd, fields) ==
    IF Len(fields) = 0 THEN dd
    ELSE BuildDates(DictSet(dd, fields[1], IsoFormat(Strptime(fields[1]))),
                    Tail(fields))

\* for country in countries: data_dict[temp_key] = [0, 0, 0]
RECURSIVE FillCountries(_, _, _)
FillCountries(dd, date, countries) ==
    IF Len(countries) = 0 THEN dd
    ELSE FillCountries(DictSet(dd, TempKey(date, countries[1]), <<0, 0, 0>>),
                       date, Tail(countries))

\* A skeleton that holds the first date only.
BuildSkeletonFirstDate(dd, dates, countries) ==
    IF Len(dates) = 0 THEN dd ELSE FillCountries(dd, dates[1], countries)

\* for date in dates: data_dict[temp_key] = [0, 0, 0], for one country
RECURSIVE FillDates(_, _, _)
FillDates(dd, dates, country) ==
    IF Len(dates) = 0 THEN dd
    ELSE FillDates(DictSet(dd, TempKey(dates[1], country), <<0, 0, 0>>),
                   Tail(dates), country)

\* A skeleton built with the two loops exchanged: the regions outside.
RECURSIVE BuildSkeletonByRegion(_, _, _)
BuildSkeletonByRegion(dd, dates, countries) ==
    IF Len(countries) = 0 THEN dd
    ELSE BuildSkeletonByRegion(FillDates(dd, dates, countries[1]),
                               dates, Tail(countries))

\* for date in dates_dict.values(): for country in countries: ...
RECURSIVE BuildSkeleton(_, _, _)
BuildSkeleton(dd, dates, countries) ==
    IF Len(dates) = 0 THEN dd
    ELSE BuildSkeleton(FillCountries(dd, dates[1], countries),
                       Tail(dates), countries)

\* The text of the first source is its header line and the Country/Region
\* values of its rows; an empty text has no header (fieldnames is None) and
\* no row, and a row of a header without the column has no such value.
GenerateList ==
    /\ g_pc = "start"
    /\ \E header \in FirstHeaders,
          found \in SUBSET Regions :
          LET fields == FieldsOf(header)
              dates == BuildDates(<<>>, fields)
              countries == SortedList(found)
          IN /\ header = <<>> => found = {}
             /\ response1' = [header |-> header, fields |-> fields,
                              countries |-> found]
             /\ IF header = <<>>
                THEN /\ g_error' = "TypeError"
                     /\ g_pc' = "failed"
                     /\ UNCHANGED <<dates_dict, data_dict>>
                ELSE IF found # {} /\ Country_Region \notin Range(header)
                THEN /\ g_error' = "KeyError"
                     /\ g_pc' = "failed"
                     /\ dates_dict' = dates
                     /\ UNCHANGED data_dict
                ELSE /\ g_error' = g_error
                     /\ g_pc' = "merge"
                     /\ dates_dict' = dates
                     /\ data_dict' =
                            BuildSkeleton(<<>>, DictValues(dates), countries)
    /\ kind' = 1
    /\ UNCHANGED <<responses, row, global_data>>
    /\ UNCHANGED NotGlobal

(***************************************************************************)
(* step1_global.py: main, the merge of the three sources.                  *)
(***************************************************************************)
\* An update that overwrites instead of adding.
AddValueOverwrite(old, kd, n) == [old EXCEPT ![kd] = n]

\* An update that always adds to the first measure.
AddValueConfirmed(old, kd, n) == [old EXCEPT ![1] = @ + n]

\* data_dict[temp_key][i] += n, i the place of the kind of the source
AddValue(old, kd, n) == [old EXCEPT ![kd] = @ + n]

\* A merge that skips a key the skeleton does not hold.
RECURSIVE MergeRowFromSkipping(_, _, _, _, _, _)
MergeRowFromSkipping(dd, dates, i, fields, r, kd) ==
    IF i > Len(dates) THEN [dict |-> dd, error |-> NoError]
    ELSE LET temp_key == TempKey(dates[i][2], r.country)
             cell == RowGet(fields, r, dates[i][1])
         IN IF Country_Region \notin Range(r.header)
            THEN [dict |-> dd, error |-> "KeyError"]
            ELSE IF temp_key \notin DictKeys(dd)
            THEN MergeRowFromSkipping(dd, dates, i + 1, fields, r, kd)
            ELSE IF dates[i][1] \notin Range(fields)
            THEN [dict |-> dd, error |-> "KeyError"]
            ELSE IF ~IsInt(cell)
            THEN [dict |-> dd, error |-> "ValueError"]
            ELSE MergeRowFromSkipping(
                     DictSet(dd, temp_key,
                             AddValue(DictGet(dd, temp_key), kd, IntOf(cell))),
                     dates, i + 1, fields, r, kd)

\* for k, v in dates_dict.items(): the loop over the dates for one row, from
\* the i-th date on; fields are the date columns of the row. A row without
\* the Country/Region column, a key the skeleton does not hold, a row without
\* the column k, or a cell that is no integer ends the run.
RECURSIVE MergeRowFrom(_, _, _, _, _, _)
MergeRowFrom(dd, dates, i, fields, r, kd) ==
    IF i > Len(dates) THEN [dict |-> dd, error |-> NoError]
    ELSE LET k == dates[i][1]
             v == dates[i][2]
             temp_key == TempKey(v, r.country)
             cell == RowGet(fields, r, k)
         IN IF Country_Region \notin Range(r.header)
            THEN [dict |-> dd, error |-> "KeyError"]
            ELSE IF temp_key \notin DictKeys(dd)
            THEN [dict |-> dd, error |-> "KeyError"]
            ELSE IF k \notin Range(fields)
            THEN [dict |-> dd, error |-> "KeyError"]
            ELSE IF ~IsInt(cell)
            THEN [dict |-> dd, error |-> "ValueError"]
            ELSE MergeRowFrom(
                     DictSet(dd, temp_key,
                             AddValue(DictGet(dd, temp_key), kd, IntOf(cell))),
                     dates, i + 1, fields, r, kd)

RowsRead == Len(responses[1]) + Len(responses[2]) + Len(responses[3])

\* The rows the three texts hold together, at most.
RowLimit == IF runs + reruns > 0 THEN MaxRowsTwice ELSE MaxRows

\* The rows a source of the given header line may hold: a value of each of
\* its date columns, and of Country/Region where it has the column.
RowsOf(header) ==
    [header : {header},
     country : IF Country_Region \in Range(header) THEN Regions ELSE {NoColumn},
     cells : [1..Len(FieldsOf(header)) -> Cells]]

\* One iteration of "for row in reader" of the source being merged; the rows
\* of one source are under one header line.
MergeRow ==
    /\ g_pc = "merge"
    /\ RowsRead < RowLimit
    /\ \E header \in SourceHeaders(response1.header) : \E r \in RowsOf(header) :
          LET res == MergeRowFrom(data_dict, dates_dict, 1,
                                  FieldsOf(header), r, kind)
          IN /\ \A j \in 1..Len(responses[kind]) :
                    responses[kind][j].header = header
             /\ row' = r
             /\ responses' = [responses EXCEPT ![kind] = Append(@, r)]
             /\ data_dict' = res.dict
             /\ g_error' = res.error
             /\ g_pc' = IF res.error = NoError THEN "merge" ELSE "failed"
    /\ UNCHANGED <<response1, dates_dict, kind, global_data>>
    /\ UNCHANGED NotGlobal

\* The reader of the source is exhausted: the next source, or the output.
NextSource ==
    /\ g_pc = "merge"
    /\ IF kind < Len(CSV_FILES)
       THEN kind' = kind + 1 /\ g_pc' = g_pc
       ELSE kind' = kind /\ g_pc' = "write"
    /\ UNCHANGED <<response1, responses, dates_dict, data_dict, row, g_error,
                   global_data>>
    /\ UNCHANGED NotGlobal

HeaderRow == <<"isodate", "country", "confirmed", "deaths", "recovered">>

\* isodate, country = k.split("_"); data_list.append([isodate, country, v...])
DataRow(k, v) ==
    LET p == Split(k, "_") IN <<p[1], p[2], v[1], v[2], v[3]>>

\* The unpacking of k.split("_") needs exactly two pieces.
Unpacks(k) == Len(Split(k, "_")) = 2

DataList(dd) == <<HeaderRow>> \o [i \in 1..Len(dd) |-> DataRow(dd[i][1], dd[i][2])]

\* open("global_data.csv", "w") truncates; writerows runs after the loop.
WriteFile ==
    /\ g_pc = "write"
    /\ IF \A i \in 1..Len(data_dict) : Unpacks(data_dict[i][1])
       THEN /\ global_data' = DataList(data_dict)
            /\ g_pc' = "done"
            /\ g_error' = g_error
       ELSE /\ global_data' = <<>>
            /\ g_pc' = "failed"
            /\ g_error' = "ValueError"
    /\ UNCHANGED <<response1, responses, dates_dict, data_dict, kind, row>>
    /\ UNCHANGED NotGlobal

GlobalInit ==
    /\ g_pc = "start"
    /\ response1 = [header |-> <<>>, fields |-> <<>>, countries |-> {}]
    /\ responses = <<<<>>, <<>>, <<>>>>
    /\ dates_dict = <<>>
    /\ data_dict = <<>>
    /\ kind = 1
    /\ row = NoRow
    /\ g_error = NoError
    /\ global_data = NoFile

GlobalNext == GenerateList \/ MergeRow \/ NextSource \/ WriteFile

(***************************************************************************)
(* step1_mx.py: the encoding repair.                                       *)
(***************************************************************************)
\* The table with the one-character sequence moved to the front.
FIXERS_ShortFirst ==
    << << <<"Ã">>, <<"í">> >>,
       << <<"Ã", "±">>, <<"ñ">> >>,
       << <<"Ã", "¡">>, <<"á">> >>,
       << <<"Ã", "©">>, <<"é">> >>,
       << <<"Ã", "³">>, <<"ó">> >>,
       << <<"Ã", "º">>, <<"ú">> >> >>

\* The table with the one-character sequence ahead of the last pair.
FIXERS_ShortBeforeLast ==
    << << <<"Ã", "±">>, <<"ñ">> >>,
       << <<"Ã", "¡">>, <<"á">> >>,
       << <<"Ã", "©">>, <<"é">> >>,
       << <<"Ã", "³">>, <<"ó">> >>,
       << <<"Ã">>, <<"í">> >>,
       << <<"Ã", "º">>, <<"ú">> >> >>

\* FIXERS.items(), in the order of the dict literal.
FIXERS ==
    << << <<"Ã", "±">>, <<"ñ">> >>,
       << <<"Ã", "¡">>, <<"á">> >>,
       << <<"Ã", "©">>, <<"é">> >>,
       << <<"Ã", "³">>, <<"ó">> >>,
       << <<"Ã", "º">>, <<"ú">> >>,
       << <<"Ã">>, <<"í">> >> >>

\* One iteration of "for k, v in FIXERS.items()": value.replace(k, v).strip()
FixStep(s, i) == Strip(Replace(s, FIXERS[i][1], FIXERS[i][2]))

\* The whole loop, from the i-th substitution on.
RECURSIVE FixFrom(_, _)
FixFrom(s, i) == IF i > Len(FIXERS) THEN s ELSE FixFrom(FixStep(s, i), i + 1)

FixEncoding(s) == FixFrom(s, 1)

\* Characters of the texts handed to the repair.
FixAlphabet == {"Ã", "±", "©", "º", "é", " ", "x"}

Mexico_Corrupted == <<"M", "Ã", "©", "x", "i", "c", "o">>

Mexico == <<"M", "é", "x", "i", "c", "o">>

FixInputs == SeqsUpTo(FixAlphabet, MaxText) \cup {Mexico_Corrupted}

FixInit ==
    /\ f_in \in FixInputs
    /\ f_text = f_in
    /\ f_i = 1

\* The repair is not running.
FixIdle ==
    /\ f_in = <<>>
    /\ f_text = <<>>
    /\ f_i = Len(FIXERS) + 1

ApplyFixer ==
    /\ f_i <= Len(FIXERS)
    /\ f_text' = FixStep(f_text, f_i)
    /\ f_i' = f_i + 1
    /\ UNCHANGED f_in
    /\ UNCHANGED NotFix

FixNext == ApplyFixer

(***************************************************************************)
(* step1_mx.py: the catalog workbook.                                      *)
(***************************************************************************)
\* A cell of a sheet: its value is None or a text.
PyNone == [none |-> TRUE, text |-> <<>>]

Text(s) == [none |-> FALSE, text |-> s]

\* str(value), and "{}".format(value)
StrOf(c) == IF c.none THEN <<"None">> ELSE c.text

\* The truth value of "if value:".
Truthy(c) == ~c.none /\ c.text # <<>>

\* The dicts, in the order convert fills them.
DictNames ==
    <<"ORIGEN_DICT", "SECTOR_DICT", "SEXO_DICT", "TIPO_PACIENTE_DICT",
      "SI_NO_DICT", "NACIONALIDAD_DICT", "RESULTADO_LAB_DICT",
      "CLASIFICACION_FINAL_DICT", "ENTIDADES_DICT", "MUNICIPIOS_DICT">>

\* The sheets read by the same three lines: D[str(code)] = str(label).strip()
PlainDicts ==
    {"ORIGEN_DICT", "SECTOR_DICT", "SEXO_DICT", "TIPO_PACIENTE_DICT",
     "SI_NO_DICT", "NACIONALIDAD_DICT", "ENTIDADES_DICT"}

\* A letter that tells the labels of one sheet from those of another.
Tag(name) ==
    CASE name = "ORIGEN_DICT" -> "O" [] name = "SECTOR_DICT" -> "S"
      [] name = "SEXO_DICT" -> "X" [] name = "TIPO_PACIENTE_DICT" -> "T"
      [] name = "SI_NO_DICT" -> "Y" [] name = "NACIONALIDAD_DICT" -> "N"
      [] name = "RESULTADO_LAB_DICT" -> "R"
      [] name = "CLASIFICACION_FINAL_DICT" -> "C"
      [] name = "ENTIDADES_DICT" -> "E" [] name = "MUNICIPIOS_DICT" -> "M"

\* The codes of a sheet: two states for the states, 1 and 2 for the others.
CodesOf(name) ==
    IF name = "ENTIDADES_DICT"
    THEN << <<"0", "9">>, <<"1", "5">> >>
    ELSE << <<"1">>, <<"2">> >>

\* A sheet as the workbook usually holds it: a code and a label per row, the
\* labels with blanks around them, those of the final classification with a
\* corrupted sequence; a municipality row is (code, label, state code).
UsualSheet(name) ==
    IF name = "MUNICIPIOS_DICT"
    THEN << <<Text(<<"0", "0", "3">>), Text(<<"M", "3", " ">>), Text(<<"1", "5">>)>>,
            <<Text(<<"0", "0", "2">>), Text(<<" ", "M", "2">>), Text(<<"0", "9">>)>> >>
    ELSE IF name = "CLASIFICACION_FINAL_DICT"
    THEN << <<Text(<<"1">>), Text(<<" ", "C", "Ã", "³", "1">>)>>,
            <<Text(<<"2">>), Text(<<"C", "2", "Ã", " ">>)>> >>
    ELSE << <<Text(CodesOf(name)[1]), Text(<<" ", Tag(name), "1">>)>>,
            <<Text(CodesOf(name)[2]), Text(<<Tag(name), "2", " ">>)>> >>

\* A row of empty cells, as a sheet holds below or between its entries.
NoneRow(name) ==
    IF name = "MUNICIPIOS_DICT" THEN <<PyNone, PyNone, PyNone>>
    ELSE <<PyNone, PyNone>>

\* What a sheet may hold instead: a row of empty cells ahead of its entries,
\* a row with no cell after them, its second entry missing.
SheetChoices(name) ==
    { UsualSheet(name),
      <<NoneRow(name)>> \o UsualSheet(name),
      UsualSheet(name) \o << <<>> >>,
      <<UsualSheet(name)[1]>> }

UsualWorkbook == [name \in Range(DictNames) |-> UsualSheet(name)]

\* The workbooks: the usual one, or one sheet of it changed.
Workbooks ==
    UNION {{[UsualWorkbook EXCEPT ![name] = sh] : sh \in SheetChoices(name)} :
               name \in Range(DictNames)}

(***************************************************************************)
(* step1_mx.py: the catalog loaders.                                       *)
(***************************************************************************)
\* D[key] = value on a dict held as a function.
Put(d, k, v) == [x \in DOMAIN d \cup {k} |-> IF x = k THEN v ELSE d[x]]

EmptyDict == [x \in {} |-> <<>>]

Loaded(d) == [dict |-> d, error |-> NoError]

Raised(d, e) == [dict |-> d, error |-> e]

\* A label stored without the stripping.
PlainLabelUnstripped(c) == StrOf(c)

\* str(row[1].value).strip()
PlainLabel(c) == Strip(StrOf(c))

\* for row in sheet.rows: D[str(row[0].value)] = str(row[1].value).strip()
RECURSIVE LoadPlain(_, _)
LoadPlain(d, rows) ==
    IF Len(rows) = 0 THEN Loaded(d)
    ELSE IF Len(rows[1]) < 2 THEN Raised(d, "IndexError")
    ELSE LoadPlain(Put(d, StrOf(rows[1][1]), PlainLabel(rows[1][2])), Tail(rows))

\* The same behind "if len(row) > 0".
RECURSIVE LoadResultadoLab(_, _)
LoadResultadoLab(d, rows) ==
    IF Len(rows) = 0 THEN Loaded(d)
    ELSE IF Len(rows[1]) > 0
    THEN IF Len(rows[1]) < 2 THEN Raised(d, "IndexError")
         ELSE LoadResultadoLab(
                  Put(d, StrOf(rows[1][1]), PlainLabel(rows[1][2])), Tail(rows))
    ELSE LoadResultadoLab(d, Tail(rows))

\* Behind "if row[0].value": the label, repaired, under str(code); a label
\* that is None has no replace.
RECURSIVE LoadClasificacion(_, _)
LoadClasificacion(d, rows) ==
    IF Len(rows) = 0 THEN Loaded(d)
    ELSE IF Len(rows[1]) < 1 THEN Raised(d, "IndexError")
    ELSE IF Truthy(rows[1][1])
    THEN IF Len(rows[1]) < 2 THEN Raised(d, "IndexError")
         ELSE IF rows[1][2].none THEN Raised(d, "AttributeError")
         ELSE LoadClasificacion(
                  Put(d, StrOf(rows[1][1]), FixEncoding(rows[1][2].text)),
                  Tail(rows))
    ELSE LoadClasificacion(d, Tail(rows))

\* "{}-{}".format(row[0].value, row[2].value)
SheetKey(r) == StrOf(r[1]) \o <<"-">> \o StrOf(r[3])

RECURSIVE LoadMunicipios(_, _)
LoadMunicipios(d, rows) ==
    IF Len(rows) = 0 THEN Loaded(d)
    ELSE IF Len(rows[1]) < 3 THEN Raised(d, "IndexError")
    ELSE LoadMunicipios(Put(d, SheetKey(rows[1]), PlainLabel(rows[1][2])),
                        Tail(rows))

MxFail(e, field) == [type |-> e, field |-> field]

MxNoError == MxFail(NoError, "")

\* After a sheet: the next sheet, then the line list; an exception ends the run.
AfterSheet(res) ==
    /\ catalog' = [catalog EXCEPT ![DictNames[m_sheet]] = res.dict]
    /\ m_error' = MxFail(res.error, "")
    /\ IF res.error # NoError
       THEN m_pc' = "failed" /\ m_sheet' = m_sheet
       ELSE /\ m_sheet' = m_sheet + 1
            /\ m_pc' = IF m_sheet = Len(DictNames) THEN "read" ELSE "catalog"
    /\ UNCHANGED <<workbook, data_csv, m_n, m_row, state_with_municipality,
                   data_list, mx_data>>
    /\ UNCHANGED NotMx

LoadingSheet(names) ==
    /\ m_pc = "catalog"
    /\ m_sheet <= Len(DictNames)
    /\ DictNames[m_sheet] \in names

LoadPlainSheet ==
    /\ LoadingSheet(PlainDicts)
    /\ AfterSheet(LoadPlain(catalog[DictNames[m_sheet]],
                            workbook[DictNames[m_sheet]]))

LoadResultadoLabSheet ==
    /\ LoadingSheet({"RESULTADO_LAB_DICT"})
    /\ AfterSheet(LoadResultadoLab(catalog["RESULTADO_LAB_DICT"],
                                   workbook["RESULTADO_LAB_DICT"]))

LoadClasificacionSheet ==
    /\ LoadingSheet({"CLASIFICACION_FINAL_DICT"})
    /\ AfterSheet(LoadClasificacion(catalog["CLASIFICACION_FINAL_DICT"],
                                    workbook["CLASIFICACION_FINAL_DICT"]))

LoadMunicipiosSheet ==
    /\ LoadingSheet({"MUNICIPIOS_DICT"})
    /\ AfterSheet(LoadMunicipios(catalog["MUNICIPIOS_DICT"],
                                 workbook["MUNICIPIOS_DICT"]))

(***************************************************************************)
(* step1_mx.py: the line list.                                             *)
(***************************************************************************)
\* row["ENTIDAD_UM"] ... row["ENTIDAD_RES"] = ENTIDADES_DICT[...]
EntidadLookups ==
    << <<"ENTIDAD_UM", "ENTIDADES_DICT">>, <<"ENTIDAD_NAC", "ENTIDADES_DICT">>,
       <<"ENTIDAD_RES", "ENTIDADES_DICT">> >>

\* row["ORIGEN"] ... row["CLASIFICACION_FINAL"]
CategoricalLookups ==
    << <<"ORIGEN", "ORIGEN_DICT">>, <<"SECTOR", "SECTOR_DICT">>,
       <<"SEXO", "SEXO_DICT">>, <<"TIPO_PACIENTE", "TIPO_PACIENTE_DICT">>,
       <<"NACIONALIDAD", "NACIONALIDAD_DICT">>,
       <<"RESULTADO_LAB", "RESULTADO_LAB_DICT">>,
       <<"RESULTADO_ANTIGENO", "RESULTADO_LAB_DICT">>,
       <<"CLASIFICACION_FINAL", "CLASIFICACION_FINAL_DICT">> >>

\* The yes or no fields, in the order of their lookups.
SiNoFields ==
    <<"MIGRANTE", "INTUBADO", "NEUMONIA", "EMBARAZO", "HABLA_LENGUA_INDIG",
      "INDIGENA", "TOMA_MUESTRA_LAB", "TOMA_MUESTRA_ANTIGENO", "DIABETES",
      "EPOC", "ASMA", "INMUSUPR", "HIPERTENSION", "OTRA_COM", "CARDIOVASCULAR",
      "OBESIDAD", "RENAL_CRONICA", "TABAQUISMO", "OTRO_CASO", "UCI">>

SiNoLookups == [i \in 1..Len(SiNoFields) |-> <<SiNoFields[i], "SI_NO_DICT">>]

\* The fields of a record: the coded ones, the two countries, and the age,
\* which convert leaves alone.
FieldNames ==
    {"MUNICIPIO_RES", "PAIS_ORIGEN", "PAIS_NACIONALIDAD", "EDAD"}
    \cup {EntidadLookups[i][1] : i \in 1..Len(EntidadLookups)}
    \cup {CategoricalLookups[i][1] : i \in 1..Len(CategoricalLookups)}
    \cup Range(SiNoFields)

\* A record every code of which the usual workbook holds.
UsualRecord ==
    [f \in FieldNames |->
        CASE f = "MUNICIPIO_RES" -> <<"0", "0", "2">>
          [] f = "ENTIDAD_RES" -> <<"0", "9">>
          [] f = "ENTIDAD_NAC" -> <<"0", "9">>
          [] f = "ENTIDAD_UM" -> <<"1", "5">>
          [] f = "PAIS_ORIGEN" -> <<"9", "7">>
          [] f = "PAIS_NACIONALIDAD" -> Mexico_Corrupted
          [] f = "EDAD" -> <<"3", "0">>
          [] f \in {"SECTOR", "TIPO_PACIENTE", "RESULTADO_ANTIGENO",
                    "INTUBADO", "EMBARAZO", "DIABETES", "UCI"} -> <<"2">>
          [] OTHER -> <<"1">>]

\* The values a field may hold instead: a code no sheet holds, the other
\* state, the "99" of the country of origin, a country with blanks around it.
OtherValues(f) ==
    CASE f = "MUNICIPIO_RES" -> { <<"9", "9", "9">> }
      [] f = "ENTIDAD_RES" -> { <<"1", "5">>, <<"7">> }
      [] f = "PAIS_ORIGEN" -> { <<"9", "9">> }
      [] f = "PAIS_NACIONALIDAD" -> { <<" ", "x", " ">> }
      [] f = "EDAD" -> {}
      [] OTHER -> { <<"7">> }

\* The records: the usual one, or one field of it changed.
Records ==
    {UsualRecord}
    \cup UNION {{[UsualRecord EXCEPT ![f] = v] : v \in OtherValues(f)} :
                    f \in FieldNames}

\* The line lists: up to MaxRecords records, at most one of them unusual.
LineLists ==
    {l \in UNION {[1..n -> Records] : n \in 0..MaxRecords} :
        Cardinality({i \in 1..Len(l) : l[i] # UsualRecord}) <= 1}

(***************************************************************************)
(* step1_mx.py: the resolution of a record.                                *)
(***************************************************************************)
NO_ETIQUETADO == <<"NO ETIQUETADO">>

NO_ESPECIFICADO == <<"NO ESPECIFICADO">>

\* The key with the state code first.
RecordKeyStateFirst(r) == r["ENTIDAD_RES"] \o <<"-">> \o r["MUNICIPIO_RES"]

\* MUNICIPIOS_DICT.get(key, "NO ETIQUETADO")
GetMunicipio(d, k) == IF k \in DOMAIN d THEN d[k] ELSE NO_ETIQUETADO

\* The key with the state already replaced by its label.
RecordKeyOfLabel(r) ==
    r["MUNICIPIO_RES"] \o <<"-">> \o
    (IF r["ENTIDAD_RES"] \in DOMAIN catalog["ENTIDADES_DICT"]
     THEN catalog["ENTIDADES_DICT"][r["ENTIDAD_RES"]] ELSE r["ENTIDAD_RES"])

\* "{}-{}".format(row["MUNICIPIO_RES"], row["ENTIDAD_RES"])
RecordKey(r) == r["MUNICIPIO_RES"] \o <<"-">> \o r["ENTIDAD_RES"]

\* A lookup that keeps the code it does not find.
LookupOrKeep(d, k) ==
    IF k \in DOMAIN d THEN [found |-> TRUE, value |-> d[k]]
    ELSE [found |-> TRUE, value |-> k]

\* D[code]: the label, or KeyError
Lookup(d, k) ==
    IF k \in DOMAIN d THEN [found |-> TRUE, value |-> d[k]]
    ELSE [found |-> FALSE, value |-> k]

\* The assignments row[f] = D[row[f]] of a block, from the i-th on; the first
\* code its dict does not hold ends the run, the fields before it replaced.
RECURSIVE ResolveFrom(_, _, _)
ResolveFrom(r, lookups, i) ==
    IF i > Len(lookups) THEN [row |-> r, error |-> MxNoError]
    ELSE LET f == lookups[i][1]
             got == Lookup(catalog[lookups[i][2]], r[f])
         IN IF got.found
            THEN ResolveFrom([r EXCEPT ![f] = got.value], lookups, i + 1)
            ELSE [row |-> r, error |-> MxFail("KeyError", f)]

\* The value of PAIS_ORIGEN, the "99" never replaced.
CountryOfOriginKept(v) == v

\* if str(row["PAIS_ORIGEN"]) == "99": row["PAIS_ORIGEN"] = "NO ESPECIFICADO"
CountryOfOrigin(v) == IF v = <<"9", "9">> THEN NO_ESPECIFICADO ELSE v

\* for row in reader: the next record of the line list.
ReadRecord ==
    /\ m_pc = "read"
    /\ m_n < Len(data_csv)
    /\ m_n' = m_n + 1
    /\ m_row' = data_csv[m_n + 1]
    /\ m_pc' = "municipio"
    /\ UNCHANGED <<workbook, data_csv, catalog, m_sheet,
                   state_with_municipality, data_list, m_error, mx_data>>
    /\ UNCHANGED NotMx

\* The municipality first, under the key made of the two codes of the record.
ResolveMunicipio ==
    /\ m_pc = "municipio"
    /\ state_with_municipality' = RecordKey(m_row)
    /\ m_row' = [m_row EXCEPT !["MUNICIPIO_RES"] =
                     GetMunicipio(catalog["MUNICIPIOS_DICT"], RecordKey(m_row))]
    /\ m_pc' = "entidades"
    /\ UNCHANGED <<workbook, data_csv, catalog, m_sheet, m_n, data_list,
                   m_error, mx_data>>
    /\ UNCHANGED NotMx

\* A block of lookups that keeps the label it found as a key of the dict.
ResolveBlockMemo(lookups, next) ==
    /\ LET res == ResolveFrom(m_row, lookups, 1)
           f == lookups[1][1]
       IN /\ m_row' = res.row
          /\ m_error' = res.error
          /\ m_pc' = IF res.error = MxNoError THEN next ELSE "failed"
          /\ catalog' = [catalog EXCEPT ![lookups[1][2]] =
                             Put(@, res.row[f], res.row[f])]
    /\ UNCHANGED <<workbook, data_csv, m_sheet, m_n,
                   state_with_municipality, data_list, mx_data>>
    /\ UNCHANGED NotMx

\* A block of lookups: on to the next block, or the run ends.
ResolveBlock(lookups, next) ==
    /\ LET res == ResolveFrom(m_row, lookups, 1)
       IN /\ m_row' = res.row
          /\ m_error' = res.error
          /\ m_pc' = IF res.error = MxNoError THEN next ELSE "failed"
    /\ UNCHANGED <<workbook, data_csv, catalog, m_sheet, m_n,
                   state_with_municipality, data_list, mx_data>>
    /\ UNCHANGED NotMx

ResolveEntidades ==
    /\ m_pc = "entidades"
    /\ ResolveBlock(EntidadLookups, "categorical")

ResolveCategorical ==
    /\ m_pc = "categorical"
    /\ ResolveBlock(CategoricalLookups, "si_no")

ResolveSiNo ==
    /\ m_pc = "si_no"
    /\ ResolveBlock(SiNoLookups, "countries")

\* What mx_data.csv held before the run: the one row of an earlier table.
EarlierFile == << [f \in FieldNames |-> <<"earlier">>] >>

\* The same, with the list written to mx_data.csv as each record joins it.
ResolveCountriesWriting ==
    /\ m_pc = "countries"
    /\ LET r == [m_row EXCEPT
                    !["PAIS_ORIGEN"] = CountryOfOrigin(@),
                    !["PAIS_NACIONALIDAD"] = FixEncoding(@)]
       IN /\ m_row' = r
          /\ data_list' = Append(data_list, r)
          /\ mx_data' = Append(data_list, r)
    /\ m_pc' = "read"
    /\ UNCHANGED <<workbook, data_csv, catalog, m_sheet, m_n,
                   state_with_municipality, m_error>>
    /\ UNCHANGED NotMx

\* The two countries, and the record joins the list.
ResolveCountries ==
    /\ m_pc = "countries"
    /\ LET r == [m_row EXCEPT
                    !["PAIS_ORIGEN"] = CountryOfOrigin(@),
                    !["PAIS_NACIONALIDAD"] = FixEncoding(@)]
       IN /\ m_row' = r
          /\ data_list' = Append(data_list, r)
    /\ m_pc' = "read"
    /\ UNCHANGED <<workbook, data_csv, catalog, m_sheet, m_n,
                   state_with_municipality, m_error, mx_data>>
    /\ UNCHANGED NotMx

\* The reader is exhausted: mx_data.csv is opened and the list written.
WriteDataset ==
    /\ m_pc = "read"
    /\ m_n = Len(data_csv)
    /\ mx_data' = data_list
    /\ m_pc' = "done"
    /\ UNCHANGED <<workbook, data_csv, catalog, m_sheet, m_n, m_row,
                   state_with_municipality, data_list, m_error>>
    /\ UNCHANGED NotMx

MxInit ==
    /\ workbook \in Workbooks
    /\ data_csv \in LineLists
    /\ catalog = [name \in Range(DictNames) |-> EmptyDict]
    /\ m_pc = "catalog"
    /\ m_sheet = 1
    /\ m_n = 0
    /\ m_row = UsualRecord
    /\ state_with_municipality = <<>>
    /\ data_list = <<>>
    /\ m_error = MxNoError
    /\ mx_data = EarlierFile

\* convert is not running.
MxIdle ==
    /\ workbook = UsualWorkbook
    /\ data_csv = <<>>
    /\ catalog = [name \in Range(DictNames) |-> EmptyDict]
    /\ m_pc = "idle"
    /\ m_sheet = 1
    /\ m_n = 0
    /\ m_row = UsualRecord
    /\ state_with_municipality = <<>>
    /\ data_list = <<>>
    /\ m_error = MxNoError
    /\ mx_data = EarlierFile

MxNext ==
    \/ LoadPlainSheet \/ LoadResultadoLabSheet \/ LoadClasificacionSheet
    \/ LoadMunicipiosSheet
    \/ ReadRecord \/ ResolveMunicipio \/ ResolveEntidades
    \/ ResolveCategorical \/ ResolveSiNo \/ ResolveCountries
    \/ WriteDataset

(***************************************************************************)
(* step1_mx.py: the resolution of one coded field, applied again.          *)
(***************************************************************************)
\* The dict a sheet gives, by the loader of its name.
LoadSheet(name, sheet) ==
    CASE name \in PlainDicts -> LoadPlain(EmptyDict, sheet)
      [] name = "RESULTADO_LAB_DICT" -> LoadResultadoLab(EmptyDict, sheet)
      [] name = "CLASIFICACION_FINAL_DICT" -> LoadClasificacion(EmptyDict, sheet)
      [] name = "MUNICIPIOS_DICT" -> LoadMunicipios(EmptyDict, sheet)

\* The dicts read by row[f] = D[row[f]].
LookupDicts == Range(DictNames) \ {"MUNICIPIOS_DICT"}

\* The values a coded field may hold in the line list.
FieldValues == { <<"1">>, <<"2">>, <<"7">>, <<"0", "9">>, <<"None">> }

ResolveInit ==
    /\ \E name \in LookupDicts : \E sheet \in SheetChoices(name) :
           /\ LoadSheet(name, sheet).error = NoError
           /\ r_dict = LoadSheet(name, sheet).dict
    /\ r_value \in FieldValues
    /\ r_calls = 0
    /\ r_error = NoError

\* No field is being resolved.
ResolveIdle ==
    /\ r_dict = EmptyDict
    /\ r_value = <<>>
    /\ r_calls = 0
    /\ r_error = NoError

\* row[f] = D[row[f]], once more: twice in all.
ResolveAgain ==
    /\ r_calls < 2
    /\ r_error = NoError
    /\ LET got == Lookup(r_dict, r_value)
       IN /\ r_value' = got.value
          /\ r_error' = IF got.found THEN NoError ELSE "KeyError"
    /\ r_calls' = r_calls + 1
    /\ UNCHANGED r_dict
    /\ UNCHANGED NotResolve

ResolveNext == ResolveAgain

(***************************************************************************)
(* step2_mx.py: plot_age_groups.                                           *)
(***************************************************************************)
Positivo == "Positivo SARS-CoV-2"

\* The ages of the cases: the ends of the first bins, of the last one, and
\* an age beyond it.
Ages == {0, 9, 10, 90, 120, 121}

Cases == [RESULTADO : {Positivo, "No positivo"}, SEXO : {"HOMBRE", "MUJER"},
          EDAD : Ages]

\* df[mask]: the rows the mask keeps, in their order.
RECURSIVE Filter(_, _)
Filter(rows, keep) ==
    IF Len(rows) = 0 THEN <<>>
    ELSE (IF keep[rows[1]] THEN <<rows[1]>> ELSE <<>>) \o Filter(Tail(rows), keep)

\* The mask of one sex.
OfSex(sex) == [c \in Cases |-> c.SEXO = sex]

\* The bin the loop appends for i: (i, i + 30) for 90, (i, i + 9) otherwise.
AgeGroup(i) == IF i = 90 THEN <<i, i + 30>> ELSE <<i, i + 9>>

\* for i in range(0, 100, 10)
AgeGroups == [n \in 1..10 |-> AgeGroup(10 * (n - 1))]

\* Series.between(start, end): both ends are part of the interval.
Between(x, start, end) == start <= x /\ x <= end

\* frame[frame["EDAD"].between(start, end)]["EDAD"].count()
CountBetween(rows, bin) ==
    Len(Filter(rows, [c \in Cases |-> Between(c.EDAD, bin[1], bin[2])]))

\* Only the confirmed cases, and one DataFrame for each sex.
SelectConfirmed ==
    /\ a_pc = "select"
    /\ LET confirmed == Filter(df, [c \in Cases |-> c.RESULTADO = Positivo])
       IN /\ male_df' = Filter(confirmed, OfSex("HOMBRE"))
          /\ female_df' = Filter(confirmed, OfSex("MUJER"))
    /\ a_pc' = "bins"
    /\ UNCHANGED <<df, age_groups, male_values, female_values>>
    /\ UNCHANGED NotAges

\* The loop that builds the bins.
BuildBins ==
    /\ a_pc = "bins"
    /\ age_groups' = AgeGroups
    /\ a_pc' = "count"
    /\ UNCHANGED <<df, male_df, female_df, male_values, female_values>>
    /\ UNCHANGED NotAges

\* One iteration of "for start, end in age_groups".
CountBin ==
    /\ a_pc = "count"
    /\ LET bin == age_groups[Len(male_values) + 1]
       IN /\ male_values' = Append(male_values, CountBetween(male_df, bin))
          /\ female_values' = Append(female_values, CountBetween(female_df, bin))
    /\ a_pc' = IF Len(male_values) + 1 = Len(age_groups) THEN "done" ELSE "count"
    /\ UNCHANGED <<df, male_df, female_df, age_groups>>
    /\ UNCHANGED NotAges

AgesInit ==
    /\ a_pc = "select"
    /\ df \in SeqsUpTo(Cases, MaxCases)
    /\ male_df = <<>>
    /\ female_df = <<>>
    /\ age_groups = <<>>
    /\ male_values = <<>>
    /\ female_values = <<>>

\* The reporter is not running.
AgesIdle ==
    /\ a_pc = "idle"
    /\ df = <<>>
    /\ male_df = <<>>
    /\ female_df = <<>>
    /\ age_groups = <<>>
    /\ male_values = <<>>
    /\ female_values = <<>>

AgesNext == SelectConfirmed \/ BuildBins \/ CountBin

(***************************************************************************)
(* replacer.py: the two tables are moved to ../data, the Mexican one       *)
(* zipped.  File names are strings: "mx_Data.csv" is not "mx_data.csv".    *)
(***************************************************************************)
\* The names a file of the working directory may have.
WorkNames ==
    {"global_data.csv", "mx_data.csv", "mx_Data.csv", "mx_data.zip", "data.zip"}

\* The names a file of ../data may have.
DataNames == {"global_data.csv", "mx_data.zip"}

\* An exception ends the script where it is.
ReplacerFails ==
    /\ p_pc' = "failed"
    /\ p_error' = "FileNotFoundError"

\* os.replace("./global_data.csv", "../data/global_data.csv")
ReplaceGlobal ==
    /\ p_pc = "replace_global"
    /\ IF "global_data.csv" \in cwd
       THEN /\ cwd' = cwd \ {"global_data.csv"}
            /\ data_dir' = data_dir \cup {"global_data.csv"}
            /\ p_pc' = "compress"
            /\ p_error' = p_error
       ELSE /\ ReplacerFails
            /\ UNCHANGED <<cwd, data_dir>>
    /\ UNCHANGED <<archive, cwd_start>>
    /\ UNCHANGED NotReplacer

\* with zipfile.ZipFile("./mx_data.zip", "w") as zip_file:
\*     zip_file.write("mx_data.csv")
\* The archive is created empty, and closed as it is when write raises.
Compress ==
    /\ p_pc = "compress"
    /\ cwd' = cwd \cup {"mx_data.zip"}
    /\ IF "mx_data.csv" \in cwd
       THEN /\ archive' = {"mx_data.csv"}
            /\ p_pc' = "replace_zip"
            /\ p_error' = p_error
       ELSE /\ archive' = {}
            /\ ReplacerFails
    /\ UNCHANGED <<data_dir, cwd_start>>
    /\ UNCHANGED NotReplacer

\* os.replace("./mx_data.zip", "../data/mx_data.zip")
ReplaceZip ==
    /\ p_pc = "replace_zip"
    /\ IF "mx_data.zip" \in cwd
       THEN /\ cwd' = cwd \ {"mx_data.zip"}
            /\ data_dir' = data_dir \cup {"mx_data.zip"}
            /\ p_pc' = "remove"
            /\ p_error' = p_error
       ELSE /\ ReplacerFails
            /\ UNCHANGED <<cwd, data_dir>>
    /\ UNCHANGED <<archive, cwd_start>>
    /\ UNCHANGED NotReplacer

\* The name of the file the last line removes.
RemovedName == "mx_Data.csv"

\* os.remove("./mx_Data.csv")
RemoveCsv ==
    /\ p_pc = "remove"
    /\ IF RemovedName \in cwd
       THEN /\ cwd' = cwd \ {RemovedName}
            /\ p_pc' = "done"
            /\ p_error' = p_error
       ELSE /\ ReplacerFails
            /\ UNCHANGED cwd
    /\ UNCHANGED <<data_dir, archive, cwd_start>>
    /\ UNCHANGED NotReplacer

ReplacerInit ==
    /\ p_pc = "replace_global"
    /\ cwd \in SUBSET WorkNames
    /\ data_dir \in SUBSET DataNames
    /\ archive = {}
    /\ cwd_start = cwd
    /\ p_error = NoError

\* The script is not running.
ReplacerIdle ==
    /\ p_pc = "idle"
    /\ cwd = {}
    /\ data_dir = {}
    /\ archive = {}
    /\ cwd_start = {}
    /\ p_error = NoError

ReplacerNext == ReplaceGlobal \/ Compress \/ ReplaceZip \/ RemoveCsv

(***************************************************************************)
(* The specifications.                                                     *)
(***************************************************************************)
\* The only run of a program: none before it, none after it.
FirstRun ==
    /\ runs = 0
    /\ reruns = 0
    /\ first_table = <<>>

InitGlobal ==
    GlobalInit /\ FixIdle /\ MxIdle /\ ResolveIdle /\ FirstRun /\ AgesIdle
    /\ ReplacerIdle

SpecGlobal == InitGlobal /\ [][GlobalNext]_vars

InitFix ==
    GlobalInit /\ FixInit /\ MxIdle /\ ResolveIdle /\ FirstRun /\ AgesIdle
    /\ ReplacerIdle

SpecFix == InitFix /\ [][FixNext]_vars

InitMx ==
    GlobalInit /\ FixIdle /\ MxInit /\ ResolveIdle /\ FirstRun /\ AgesIdle
    /\ ReplacerIdle

SpecMx == InitMx /\ [][MxNext]_vars

InitResolve ==
    GlobalInit /\ FixIdle /\ MxIdle /\ ResolveInit /\ FirstRun /\ AgesIdle
    /\ ReplacerIdle

InitAges ==
    GlobalInit /\ FixIdle /\ MxIdle /\ ResolveIdle /\ FirstRun /\ AgesInit
    /\ ReplacerIdle

SpecAges == InitAges /\ [][AgesNext]_vars

InitReplacer ==
    GlobalInit /\ FixIdle /\ MxIdle /\ ResolveIdle /\ FirstRun /\ AgesIdle
    /\ ReplacerInit

SpecReplacer == InitReplacer /\ [][ReplacerNext]_vars

SpecResolve == InitResolve /\ [][ResolveNext]_vars

(***************************************************************************)
(* A reconciler run twice on the same raw inputs.                          *)
(***************************************************************************)
\* for row in reader, over the rows of one source.
RECURSIVE MergeRows(_, _, _, _)
MergeRows(dd, dates, rows, kd) ==
    IF Len(rows) = 0 THEN [dict |-> dd, error |-> NoError]
    ELSE LET res == MergeRowFrom(dd, dates, 1, FieldsOf(rows[1].header),
                                 rows[1], kd)
         IN IF res.error # NoError THEN res
            ELSE MergeRows(res.dict, dates, Tail(rows), kd)

\* for kind, url in CSV_FILES.items(), from the source kd on.
RECURSIVE MergeSources(_, _, _, _)
MergeSources(dd, dates, texts, kd) ==
    IF kd > Len(CSV_FILES) THEN [dict |-> dd, error |-> NoError]
    ELSE LET res == MergeRows(dd, dates, texts[kd], kd)
         IN IF res.error # NoError THEN res
            ELSE MergeSources(res.dict, dates, texts, kd + 1)

\* step1_global.py run once more, the three sources holding what the run
\* before read from them: generate_list, the merge and the output.
MainAgain ==
    /\ g_pc = "done"
    /\ reruns > 0
    /\ LET dates == BuildDates(<<>>, FieldsOf(response1.header))
           countries == SortedList(response1.countries)
           skeleton == BuildSkeleton(<<>>, DictValues(dates), countries)
           res == MergeSources(skeleton, dates, responses, 1)
           written == /\ res.error = NoError
                      /\ \A i \in 1..Len(res.dict) : Unpacks(res.dict[i][1])
       IN /\ dates_dict' = dates
          /\ data_dict' = res.dict
          /\ g_error' = IF res.error # NoError THEN res.error
                        ELSE IF written THEN NoError ELSE "ValueError"
          /\ g_pc' = IF written THEN "done" ELSE "failed"
          /\ global_data' = IF written THEN DataList(res.dict)
                            ELSE IF res.error = NoError THEN <<>>
                            ELSE global_data
    /\ first_table' = global_data
    /\ runs' = runs + 1
    /\ reruns' = reruns - 1
    /\ UNCHANGED <<response1, responses, kind, row>>
    /\ UNCHANGED <<fvars, mvars, rvars, avars, pvars>>

\* step1_mx.py run once more on the same workbook and line list: a new
\* process, its dicts empty, mx_data.csv as the run before left it.
ConvertAgain ==
    /\ m_pc = "done"
    /\ reruns > 0
    /\ catalog' = [name \in Range(DictNames) |-> EmptyDict]
    /\ m_pc' = "catalog"
    /\ m_sheet' = 1
    /\ m_n' = 0
    /\ m_row' = UsualRecord
    /\ state_with_municipality' = <<>>
    /\ data_list' = <<>>
    /\ m_error' = MxNoError
    /\ first_table' = mx_data
    /\ runs' = runs + 1
    /\ reruns' = reruns - 1
    /\ UNCHANGED <<workbook, data_csv, mx_data>>
    /\ UNCHANGED <<gvars, fvars, rvars, avars, pvars>>

\* main is not running.
GlobalIdle ==
    /\ g_pc = "idle"
    /\ response1 = [header |-> <<>>, fields |-> <<>>, countries |-> {}]
    /\ responses = <<<<>>, <<>>, <<>>>>
    /\ dates_dict = <<>>
    /\ data_dict = <<>>
    /\ kind = 1
    /\ row = NoRow
    /\ g_error = NoError
    /\ global_data = NoFile

TwiceNext == GlobalNext \/ MainAgain \/ MxNext \/ ConvertAgain

\* One of the two reconcilers runs, and then runs again.
InitTwice ==
    /\ \/ GlobalInit /\ MxIdle
       \/ GlobalIdle /\ MxInit
    /\ FixIdle
    /\ ResolveIdle
    /\ runs = 0
    /\ reruns = 1
    /\ first_table = <<>>
    /\ AgesIdle
    /\ ReplacerIdle

SpecTwice == InitTwice /\ [][TwiceNext]_vars

(***************************************************************************)
(* Properties of the global pipeline.                                      *)
(***************************************************************************)
RECURSIVE SumSeq(_)
SumSeq(s) == IF Len(s) = 0 THEN 0 ELSE s[1] + SumSeq(Tail(s))

\* The sum of the values of the function f over the set S.
RECURSIVE SumOver(_, _)
SumOver(S, f) ==
    IF S = {} THEN 0
    ELSE LET x == CHOOSE y \in S : TRUE IN f[x] + SumOver(S \ {x}, f)

\* The data rows of the written table.
OutRows == Tail(global_data)

\* The dates and regions of the first source, read off the response.
SourceDates == {IsoFormat(Strptime(f)) : f \in Range(response1.fields)}
SourceLabels == Range(response1.fields)
SourceRegions == response1.countries

OutRowsOf(d, c) == {i \in 1..Len(OutRows) : OutRows[i][1] = d /\ OutRows[i][2] = c}

\* C1 (as amended): when main completes, the table holds exactly one data row
\* per (date, region) pair of the first source, the number of data rows is
\* (number of distinct ISO dates of the date columns) x (number of distinct
\* regions), and a pair no row of a source contributes to holds 0 for it.
C1_OneRowPerPair ==
    g_pc = "done" =>
        /\ \A d \in SourceDates, c \in SourceRegions :
               Cardinality(OutRowsOf(d, c)) = 1
        /\ Len(OutRows) = Cardinality(SourceDates) * Cardinality(SourceRegions)
        /\ \A i \in 1..Len(OutRows), kd \in 1..3 :
               (\A j \in 1..Len(responses[kd]) :
                    responses[kd][j].country # OutRows[i][2])
               => OutRows[i][2 + kd] = 0

\* C1 as stated: the number of data rows is (number of distinct date columns
\* of the header) x (number of distinct regions).
C1_RowsPerDateColumn ==
    g_pc = "done" =>
        Len(OutRows) = Cardinality(SourceLabels) * Cardinality(SourceRegions)

\* A completed run with two dates, two regions, a merged row and a pair that
\* no row of the deaths source contributes to.
C1_Witness ==
    /\ g_pc = "done"
    /\ Cardinality(SourceDates) = 2
    /\ Cardinality(SourceRegions) = 2
    /\ Len(responses[1]) > 0
    /\ \E i \in 1..Len(OutRows) : OutRows[i][3] > 0 /\ OutRows[i][4] = 0

\* The sum of the date's column(s) over the rows main read from a source.
RawSum(kd, d) ==
    LET labels == {k \in SourceLabels : IsoFormat(Strptime(k)) = d}
        OfRow(r) ==
            SumOver(labels,
                    [k \in labels |-> IntOf(RowGet(FieldsOf(r.header), r, k))])
    IN SumSeq([j \in 1..Len(responses[kd]) |-> OfRow(responses[kd][j])])

\* The sum of a measure over the regions of a date in the written table.
OutSum(kd, d) ==
    LET rows == {i \in 1..Len(OutRows) : OutRows[i][1] = d}
    IN SumOver(rows, [i \in rows |-> OutRows[i][2 + kd]])

\* C2: in the written table, for every measure and every date of the
\* skeleton, the sum of the measure over the regions equals the sum of that
\* date's column over all the rows of the raw source of the measure, rows of
\* one region being added into the same entry.
C2_SumsAgree ==
    g_pc = "done" =>
        \A kd \in 1..3, d \in SourceDates : OutSum(kd, d) = RawSum(kd, d)

\* A completed run where two rows of one source share a region and count.
C2_Witness ==
    /\ g_pc = "done"
    /\ \E kd \in 1..3 :
          /\ Len(responses[kd]) = 2
          /\ responses[kd][1].country = responses[kd][2].country
          /\ \E d \in SourceDates : RawSum(kd, d) = 2

\* A row of the deaths or recovered source whose region the first source
\* does not hold has just been read (the step reads it).
ReadsForeignRow ==
    /\ g_pc = "merge"
    /\ kind \in {2, 3}
    /\ responses' # responses
    /\ row'.country \in Regions \ SourceRegions

\* C3 (as amended): when the header has a date column, reading a row of the
\* deaths or recovered source whose region is not in the first source raises
\* KeyError: the run ends there, the entries keep the values they had before
\* the row, and global_data.csv is never opened (a failed run takes no step).
C3_ForeignRowAborts ==
    [][ /\ (ReadsForeignRow /\ dates_dict # <<>>) =>
             /\ g_error' = "KeyError"
             /\ g_pc' = "failed"
             /\ data_dict' = data_dict
             /\ global_data' = NoFile
        /\ g_pc # "failed" ]_vars

\* C3 as stated: such a row raises no error.
C3_ForeignRowDropped ==
    (\E kd \in {2, 3} : \E j \in 1..Len(responses[kd]) :
         responses[kd][j].country \notin SourceRegions)
    => g_error = NoError

\* The run ended on a row of the recovered source of an unknown region, after
\* a row of the confirmed source was merged.
C3_Witness ==
    /\ g_pc = "failed"
    /\ g_error = "KeyError"
    /\ kind = 3
    /\ Len(responses[1]) = 1
    /\ row.country \notin SourceRegions
    /\ \E i \in 1..Len(data_dict) : data_dict[i][2][1] = 1

(***************************************************************************)
(* Properties of the encoding repair.                                      *)
(***************************************************************************)
\* The text holds t at some place.
Contains(s, t) ==
    \E i \in 1..(Len(s) - Len(t) + 1) : SubSeq(s, i, i + Len(t) - 1) = t

FixKeys == {FIXERS[i][1] : i \in 1..Len(FIXERS)}

\* The letter a corrupted sequence stands for.
LetterOf(k) == (CHOOSE p \in Range(FIXERS) : p[1] = k)[2]

\* The reading of a text by place: at each place the longest corrupted
\* sequence of the table that starts there gives its letter, any other
\* character stays.
RECURSIVE Decoded(_)
Decoded(s) ==
    IF Len(s) = 0 THEN <<>>
    ELSE IF Len(s) >= 2 /\ SubSeq(s, 1, 2) \in FixKeys
    THEN LetterOf(SubSeq(s, 1, 2)) \o Decoded(SubSeq(s, 3, Len(s)))
    ELSE IF <<s[1]>> \in FixKeys
    THEN LetterOf(<<s[1]>>) \o Decoded(Tail(s))
    ELSE <<s[1]>> \o Decoded(Tail(s))

FixDone == f_i > Len(FIXERS)

\* C10: the repair turns every corrupted sequence of the table into its
\* accented letter, "MÃ©xico" into "México", and returns a text that holds
\* none of the corrupted sequences unchanged but for the stripping.
C10_RepairsEncoding ==
    FixDone =>
        /\ f_text = Strip(Decoded(f_in))
        /\ f_in = Mexico_Corrupted => f_text = Mexico
        /\ (\A k \in FixKeys : ~Contains(f_in, k)) => f_text = Strip(f_in)

\* The repair of "MÃ©xico" has run.
C10_Witness ==
    /\ FixDone
    /\ f_in = Mexico_Corrupted
    /\ f_text = Mexico

(***************************************************************************)
(* Properties of the Mexican pipeline.                                     *)
(***************************************************************************)
\* The record the reader yielded last, as the line list holds it.
RawRecord == data_csv[m_n]

\* The municipality lookup of the record yielded last has run.
MunicipioResolved == m_n >= 1 /\ m_pc # "municipio"

MunicipioSheet == workbook["MUNICIPIOS_DICT"]

\* The rows of the municipality sheet that hold the two codes of a record:
\* the municipality code in the first cell, the state code in the third.
RowsOfRecord(r) ==
    {i \in 1..Len(MunicipioSheet) :
        /\ Len(MunicipioSheet[i]) = 3
        /\ StrOf(MunicipioSheet[i][1]) = r["MUNICIPIO_RES"]
        /\ StrOf(MunicipioSheet[i][3]) = r["ENTIDAD_RES"]}

Max(S) == CHOOSE x \in S : \A y \in S : y <= x

\* The two raw codes of a record, the municipality first.
RawKey(r) == r["MUNICIPIO_RES"] \o <<"-">> \o r["ENTIDAD_RES"]

\* C4 (as amended): a record is resolved through the key made of its raw
\* municipality code, "-", its raw state code (municipality "002" of state
\* "09" under "002-09"), the order in which the loader stores the first and
\* the third cell of a sheet row, and gets the stripped label of the last
\* sheet row that holds its two codes.
C4_MunicipioByCompositeKey ==
    MunicipioResolved =>
        /\ state_with_municipality = RawKey(RawRecord)
        /\ RowsOfRecord(RawRecord) # {} =>
               /\ state_with_municipality \in DOMAIN catalog["MUNICIPIOS_DICT"]
               /\ m_row["MUNICIPIO_RES"] =
                      Strip(StrOf(MunicipioSheet[Max(RowsOfRecord(RawRecord))][2]))

\* C4 as stated: the key is the state code, "-", the municipality code.
C4_KeyStateFirst ==
    MunicipioResolved =>
        state_with_municipality =
            RawRecord["ENTIDAD_RES"] \o <<"-">> \o RawRecord["MUNICIPIO_RES"]

\* Municipality "002" of state "09" has got its label under "002-09".
C4_Witness ==
    /\ m_pc = "done"
    /\ m_n >= 1
    /\ RawRecord["ENTIDAD_RES"] = <<"0", "9">>
    /\ RawRecord["MUNICIPIO_RES"] = <<"0", "0", "2">>
    /\ state_with_municipality = <<"0", "0", "2", "-", "0", "9">>
    /\ mx_data[m_n]["MUNICIPIO_RES"] = <<"M", "2">>

EntidadFields == {EntidadLookups[i][1] : i \in 1..Len(EntidadLookups)}

\* C5: the municipality lookup of a record reads the raw ENTIDAD_RES, and
\* until it has run ENTIDAD_UM, ENTIDAD_NAC and ENTIDAD_RES hold their raw
\* codes: they are replaced by the labels only after it.
C5_MunicipioBeforeEntidades ==
    /\ m_pc \in {"municipio", "entidades"} =>
           \A f \in EntidadFields : m_row[f] = RawRecord[f]
    /\ MunicipioResolved =>
           /\ SubSeq(state_with_municipality,
                     Len(RawRecord["MUNICIPIO_RES"]) + 2,
                     Len(state_with_municipality)) = RawRecord["ENTIDAD_RES"]
           /\ m_row["MUNICIPIO_RES"] =
                  GetMunicipio(catalog["MUNICIPIOS_DICT"], RawKey(RawRecord))
    /\ m_pc \in {"categorical", "si_no", "countries"} =>
           \A f \in EntidadFields :
               m_row[f] = catalog["ENTIDADES_DICT"][RawRecord[f]]

\* The three states of a record are replaced, its municipality resolved
\* before under the raw code of the state.
C5_Witness ==
    /\ m_pc = "categorical"
    /\ RawRecord["ENTIDAD_RES"] = <<"0", "9">>
    /\ m_row["ENTIDAD_RES"] = <<"E", "1">>
    /\ m_row["ENTIDAD_UM"] = <<"E", "2">>
    /\ m_row["MUNICIPIO_RES"] = <<"M", "2">>

\* The lookups of a record through D[code], all of them.
AllLookups == EntidadLookups \o CategoricalLookups \o SiNoLookups

DictOfField(f) ==
    (CHOOSE p \in Range(AllLookups) : p[1] = f)[2]

\* C6 (as amended): a record joins the list only if the catalog of every
\* field looked up by D[code] holds its raw code, and then with the labels;
\* a run ended by KeyError rose at a field whose raw code its catalog does not
\* hold, wrote nothing and added no record for it.  The municipality is the
\* exception beside PAIS_ORIGEN: a key the municipality catalog does not hold
\* gives "NO ETIQUETADO" and the run goes on.
C6_MissingCodeAborts ==
    /\ \A n \in 1..Len(data_list) :
           /\ \A p \in Range(AllLookups) :
                  /\ data_csv[n][p[1]] \in DOMAIN catalog[p[2]]
                  /\ data_list[n][p[1]] = catalog[p[2]][data_csv[n][p[1]]]
           /\ RawKey(data_csv[n]) \notin DOMAIN catalog["MUNICIPIOS_DICT"]
                  => data_list[n]["MUNICIPIO_RES"] = NO_ETIQUETADO
    /\ (m_pc = "failed" /\ m_error.type = "KeyError") =>
           /\ m_error.field \in {p[1] : p \in Range(AllLookups)}
           /\ RawRecord[m_error.field]
                  \notin DOMAIN catalog[DictOfField(m_error.field)]
           /\ Len(data_list) = m_n - 1
           /\ mx_data = EarlierFile

\* C6 as stated, for the municipality: a record whose municipality key the
\* catalog does not hold never joins the list.
C6_MissingMunicipioAborts ==
    \A n \in 1..Len(data_list) :
        RawKey(data_csv[n]) \in DOMAIN catalog["MUNICIPIOS_DICT"]

\* A record without a municipality entry has joined the list, and the run
\* ended at the last yes or no field of the next record.
C6_Witness ==
    /\ m_pc = "failed"
    /\ m_error = MxFail("KeyError", "UCI")
    /\ Len(data_list) = 1
    /\ data_list[1]["MUNICIPIO_RES"] = NO_ETIQUETADO

\* C7: a record whose raw PAIS_ORIGEN is "99" is written with "NO
\* ESPECIFICADO", a record with another PAIS_ORIGEN with that value, and no
\* run ends on an error at that field.
C7_CountrySentinel ==
    /\ \A n \in 1..Len(data_list) :
           data_list[n]["PAIS_ORIGEN"] =
               IF data_csv[n]["PAIS_ORIGEN"] = <<"9", "9">>
               THEN NO_ESPECIFICADO ELSE data_csv[n]["PAIS_ORIGEN"]
    /\ m_pc = "done" => mx_data = data_list /\ Len(mx_data) = Len(data_csv)
    /\ m_error.field # "PAIS_ORIGEN"

\* A record of country "99" and a record of country "97" have been written.
C7_Witness ==
    /\ m_pc = "done"
    /\ \E i, j \in 1..Len(mx_data) :
          /\ data_csv[i]["PAIS_ORIGEN"] = <<"9", "9">>
          /\ mx_data[i]["PAIS_ORIGEN"] = NO_ESPECIFICADO
          /\ mx_data[j]["PAIS_ORIGEN"] = <<"9", "7">>

\* The sheet of a dict has been read to its end.
SheetLoaded(i) == m_sheet > i

\* The key a sheet row is stored under.
KeyOfRow(name, r) ==
    IF name = "MUNICIPIOS_DICT" THEN SheetKey(r) ELSE StrOf(r[1])

\* The rows of a sheet its loader stores.
StoredRows(name) ==
    {i \in 1..Len(workbook[name]) :
        /\ Len(workbook[name][i]) > 0
        /\ name = "CLASIFICACION_FINAL_DICT" => Truthy(workbook[name][i][1])}

\* C9 (as amended): every loader strips the label it stores; only the loader
\* of the final classification skips a row whose code cell is empty, so that
\* catalog never holds the key "None", while any other catalog whose sheet
\* has such a row holds the key made of "None".
C9_StrippedLabelsAndNoneRows ==
    \A i \in 1..Len(DictNames) :
        SheetLoaded(i) =>
            LET name == DictNames[i]
                sheet == workbook[name]
            IN /\ \A k \in DOMAIN catalog[name] :
                      catalog[name][k] = Strip(catalog[name][k])
               /\ \A j \in StoredRows(name) :
                      /\ KeyOfRow(name, sheet[j]) \in DOMAIN catalog[name]
                      /\ (\A h \in StoredRows(name) :
                              h > j => KeyOfRow(name, sheet[h]) # KeyOfRow(name, sheet[j]))
                         => catalog[name][KeyOfRow(name, sheet[j])] =
                                IF name = "CLASIFICACION_FINAL_DICT"
                                THEN FixEncoding(sheet[j][2].text)
                                ELSE Strip(StrOf(sheet[j][2]))
               /\ DOMAIN catalog[name] =
                      {KeyOfRow(name, sheet[j]) : j \in StoredRows(name)}
               /\ name = "CLASIFICACION_FINAL_DICT" =>
                      <<"None">> \notin DOMAIN catalog[name]
               /\ (name # "CLASIFICACION_FINAL_DICT"
                   /\ \E j \in 1..Len(sheet) : Len(sheet[j]) > 0 /\ sheet[j][1].none)
                  => \E k \in DOMAIN catalog[name] : k[1] = "None"

\* C9 as stated: no catalog ever holds the key "None".
C9_NoNoneKey ==
    \A name \in Range(DictNames) : <<"None">> \notin DOMAIN catalog[name]

\* All the sheets are loaded, the labels stripped, and the catalog of the
\* sexes holds the key "None" of a row of empty cells.
C9_Witness ==
    /\ m_pc = "read"
    /\ catalog["ORIGEN_DICT"][<<"1">>] = <<"O", "1">>
    /\ <<"None">> \in DOMAIN catalog["SEXO_DICT"]

(***************************************************************************)
(* Properties of the resolution applied again.                             *)
(***************************************************************************)
\* The value the field holds is no code of its catalog.
LabelIsNoCode == r_value \notin DOMAIN r_dict

\* C8 (as amended): the resolution of a coded field is not idempotent: with
\* the labels and the codes disjoint, applying it to a label it has resolved
\* raises KeyError; it returns the label only when the label is itself a code
\* that stands for itself.
C8_SecondResolutionRaises ==
    r_calls = 2 =>
        IF LabelIsNoCode THEN r_error = "KeyError"
        ELSE r_error = NoError

\* C8 as stated: the second resolution of a label that is no code returns
\* it, with no error.
C8_SecondResolutionNoOp ==
    (r_calls = 2 /\ LabelIsNoCode) => r_error = NoError

\* A code was resolved to its label, and the label resolved again.
C8_Witness ==
    /\ r_calls = 2
    /\ r_value = <<"X", "2">>
    /\ r_error = "KeyError"

(***************************************************************************)
(* Properties of the global pipeline: the shape of the sources.            *)
(***************************************************************************)
\* A source was read whose header line has fewer than five columns: the
\* first source by generate_list, or the source of a row of main.
ShortHeaderRead ==
    \/ g_pc # "start" /\ Len(response1.header) < 5
    \/ \E kd \in 1..3 : \E j \in 1..Len(responses[kd]) :
           Len(responses[kd][j].header) < 5

\* C11: a source whose header has fewer columns than the four metadata
\* columns and one date column aborts the run: the run does not complete and
\* no output table is written.
C11_ShortHeaderAborts ==
    ShortHeaderRead => (g_pc # "done" /\ global_data = NoFile)

(***************************************************************************)
(* Properties of the Mexican pipeline: the catalogs during the resolution. *)
(***************************************************************************)
\* Every catalog holds a key for each row of its sheet that its loader
\* stores, and no other key.
FullyBuilt ==
    \A name \in Range(DictNames) :
        DOMAIN catalog[name] =
            {KeyOfRow(name, workbook[name][j]) : j \in StoredRows(name)}

\* C12: every catalog is fully built before the first record is resolved,
\* and from the step that reads the first record to the end of the run no
\* step adds, removes or changes an entry of a catalog.
C12_CatalogsBuiltThenFrozen ==
    [][ m_n' >= 1 => (FullyBuilt /\ catalog' = catalog) ]_vars

\* Two records were resolved against a workbook with a changed sheet, and
\* the table was written.
C12_Witness ==
    /\ m_pc = "done"
    /\ Len(data_list) = 2
    /\ workbook # UsualWorkbook
    /\ FullyBuilt

FirstColumnOf(d) ==
    CHOOSE i \in 1..Len(response1.fields) :
        /\ IsoFormat(Strptime(response1.fields[i])) = d
        /\ \A j \in 1..(i - 1) : IsoFormat(Strptime(response1.fields[j])) # d

\* C14: the table a completed run writes starts with the header row
\* isodate,country,confirmed,deaths,recovered; its data rows are the entries
\* of the skeleton in their order, each with the date and the region its key
\* was made of; the dates follow the order of the header columns of the
\* first source and, within a date, the regions ascend.
C14_HeaderAndSkeletonOrder ==
    g_pc = "done" =>
        /\ global_data[1] = <<"isodate", "country", "confirmed", "deaths", "recovered">>
        /\ Len(OutRows) = Len(data_dict)
        /\ \A i \in 1..Len(OutRows) :
               /\ OutRows[i][1] \in SourceDates
               /\ OutRows[i][2] \in SourceRegions
               /\ data_dict[i][1] = OutRows[i][1] \o <<"_">> \o OutRows[i][2]
               /\ <<OutRows[i][3], OutRows[i][4], OutRows[i][5]>> = data_dict[i][2]
        /\ \A i, j \in 1..Len(OutRows) :
               i < j =>
                   \/ FirstColumnOf(OutRows[i][1]) < FirstColumnOf(OutRows[j][1])
                   \/ /\ OutRows[i][1] = OutRows[j][1]
                      /\ StrLess(OutRows[i][2], OutRows[j][2])

\* A table was written for a header whose later day comes first, and two
\* regions.
C14_Witness ==
    /\ g_pc = "done"
    /\ Cardinality(SourceRegions) = 2
    /\ Len(OutRows) = 4
    /\ OutRows[1][1] = <<"2", "0", "2", "0", "-", "0", "1", "-", "2", "3">>
    /\ OutRows[3][1] = <<"2", "0", "2", "0", "-", "0", "1", "-", "2", "2">>
    /\ OutRows[1][2] = <<"A">>
    /\ OutRows[2][2] = <<"B">>

(***************************************************************************)
(* Properties of the reporter.                                             *)
(***************************************************************************)
\* The number of confirmed cases of a sex in the DataFrame.
ConfirmedOf(sex) ==
    Cardinality({i \in 1..Len(df) :
                    df[i].RESULTADO = Positivo /\ df[i].SEXO = sex})

\* The number of confirmed cases of a sex of age 90 or more.
ConfirmedFrom90(sex) ==
    Cardinality({i \in 1..Len(df) :
                    /\ df[i].RESULTADO = Positivo
                    /\ df[i].SEXO = sex
                    /\ df[i].EDAD >= 90})

\* C15: when the bins are counted, the last bin of a sex holds every
\* confirmed case of that sex of age 90 or more, and the ten counts of a sex
\* sum to the number of its confirmed cases.
C15_EveryAgeInOneBin ==
    a_pc = "done" =>
        /\ male_values[10] = ConfirmedFrom90("HOMBRE")
        /\ female_values[10] = ConfirmedFrom90("MUJER")
        /\ SumSeq(male_values) = ConfirmedOf("HOMBRE")
        /\ SumSeq(female_values) = ConfirmedOf("MUJER")

(***************************************************************************)
(* Properties of the global pipeline: the two retrievals of the first      *)
(* source.                                                                 *)
(***************************************************************************)
\* main read from the confirmed source a row that the text generate_list
\* retrieved did not hold: a row of another region, or under another header.
ConfirmedChanged ==
    \E j \in 1..Len(responses[1]) :
        \/ responses[1][j].country \notin response1.countries
        \/ responses[1][j].header # response1.header

\* C16: a change of the confirmed source between its retrieval by
\* generate_list and its retrieval by main does not make the run fail.
C16_ChangeBetweenRetrievalsHarmless ==
    ConfirmedChanged => g_pc # "failed"

(***************************************************************************)
(* Properties of the global pipeline: what the merge leaves alone.         *)
(***************************************************************************)
\* The keys of the skeleton, in their order.
SkeletonKeys(dd) == [i \in 1..Len(dd) |-> dd[i][1]]

\* The keys of the entries of a region.
KeysOfRegion(country) ==
    {dates_dict[i][2] \o <<"_">> \o country : i \in 1..Len(dates_dict)}

\* What a step of the merge may change.
MergeStepFrame ==
    g_pc \in {"merge", "write"} =>
        /\ SkeletonKeys(data_dict') = SkeletonKeys(data_dict)
        /\ responses' = responses => data_dict' = data_dict
        /\ responses' # responses =>
               \A i \in 1..Len(data_dict) : \A kd \in 1..3 :
                   (kd # kind \/ data_dict[i][1] \notin KeysOfRegion(row'.country))
                   => data_dict'[i][2][kd] = data_dict[i][2][kd]

\* C17: once generate_list has returned, no step adds or removes a key of
\* the skeleton; the step that reads a row of the source of kind k changes
\* at most the measure k of the entries of the region of the row, and a step
\* that reads no row changes no entry.
C17_MergeFrame == [][MergeStepFrame]_vars

\* A row of the deaths source was merged into a skeleton of two regions, one
\* of which had a confirmed case counted, and the merge goes on.
C17_Witness ==
    /\ g_pc = "merge"
    /\ kind = 2
    /\ Len(responses[2]) = 1
    /\ Cardinality(response1.countries) >= 2
    /\ \E i, j \in 1..Len(data_dict) :
           /\ data_dict[i][2] = <<0, 1, 0>>
           /\ data_dict[j][2] = <<1, 0, 0>>

(***************************************************************************)
(* Properties of the Mexican pipeline: when mx_data.csv is written.        *)
(***************************************************************************)
\* C18: until every record is resolved mx_data.csv is not opened: while the
\* run goes on, and when it has ended on a missing catalog entry, the file
\* holds what the earlier run left; a written file holds one resolved record
\* for each record of the line list.
C18_WrittenAfterAllResolved ==
    /\ m_pc # "done" => mx_data = EarlierFile
    /\ m_pc = "done" =>
           /\ m_n = Len(data_csv)
           /\ Len(mx_data) = Len(data_csv)
           /\ mx_data = data_list

\* The run ended on a missing catalog entry of the second record, the first
\* one resolved.
C18_Witness ==
    /\ m_pc = "failed"
    /\ m_error.type = "KeyError"
    /\ m_n = 2
    /\ Len(data_list) = 1
    /\ mx_data = EarlierFile

(***************************************************************************)
(* Properties of the encoding repair: the order of the substitutions.      *)
(***************************************************************************)
\* The substitution about to be applied is the one of the lone "Ã".
AppliesLone == f_i <= Len(FIXERS) /\ FIXERS[f_i][1] = <<"Ã">>

\* When the lone "Ã" is replaced, every pair of the table has had its turn
\* and the text holds none of them.
LoneAfterPairs ==
    AppliesLone =>
        \A j \in 1..Len(FIXERS) :
            Len(FIXERS[j][1]) = 2 =>
                /\ FIXERS[j][1][1] = "Ã"
                /\ j < f_i
                /\ ~Contains(f_text, FIXERS[j][1])

\* C19: the substitution of the one-character sequence "Ã" is applied only
\* after those of all the two-character sequences that start with "Ã", so
\* that the text it is applied to holds no two-character sequence of the
\* table, and none is turned into "í" followed by its second character.
C19_LoneSequenceLast == [][LoneAfterPairs]_vars

\* A text with a pair and a lone "Ã" was repaired to the two letters.
C19_Witness ==
    /\ f_i = Len(FIXERS) + 1
    /\ f_in = <<"Ã", "º", "Ã">>
    /\ f_text = <<"ú", "í">>

(***************************************************************************)
(* Properties of the packaging script.                                     *)
(***************************************************************************)
\* The script has ended, with or without an exception.
ReplacerEnded == p_pc \in {"done", "failed"}

\* C20: a run of the script that finds global_data.csv and mx_data.csv in
\* the working directory ends without error; it has removed the mx_data.csv
\* it put into the archive, ../data holds global_data.csv and mx_data.zip,
\* and the working directory holds none of mx_data.csv, mx_data.zip and
\* global_data.csv.
C20_RemovesWhatItZipped ==
    ({"global_data.csv", "mx_data.csv"} \subseteq cwd_start /\ ReplacerEnded) =>
        /\ p_error = NoError
        /\ archive = {"mx_data.csv"}
        /\ {"global_data.csv", "mx_data.zip"} \subseteq data_dir
        /\ cwd \cap {"mx_data.csv", "mx_data.zip", "global_data.csv"} = {}
====
